---- MODULE Spec2Model ----
(***************************************************************************)
(* DMD update-mode control layer: the DLPControllerBase contract, its two  *)
(* backends (DLPControllerActiveX, DLPControllerDLL) and the vendor device *)
(* they drive.  Every public method is one action; the vendor backend is   *)
(* the environment: each backend call is accepted or rejected by the       *)
(* device, and a rejected write leaves the device register as it was.      *)
(***************************************************************************)
EXTENDS Integers, Sequences, FiniteSets, TLC

VARIABLES
    backend,        \* which controller class was constructed: "ActiveX" | "DLL"
    devEnable,      \* device register behind SetSWOverrideEnable (0 | 1)
    devValue,       \* device register behind Set/GetSWOverrideValue
    devAttached,    \* what IsDeviceAttached() answers (0 | 1)
    frameBuffer,    \* frame buffer of the backend: "" (empty) or the image path
    dmdMemory,      \* per block, image held by the DMD memory: "" or a path
    dmdMirrors,     \* per block, image shown by the mirrors: "" or a path
    dmdType,        \* what GetDMDTYPE answers
    calls,          \* backend calls issued by the last controller method
    lastOp,         \* the last controller method: name, arguments, outcome
    prevOp,         \* the name of the method called before lastOp
    lastSetMode,    \* the last set_single/set_dual/set_quad/set_global call
    history,        \* name, path, backend answer and outcome of every
                    \* controller method called
    lastEnableSent, \* last value transmitted to SetSWOverrideEnable, or NoValue
    lastValueSent,  \* last value transmitted to SetSWOverrideValue, or NoValue
    device_numbers, \* attribute set by connect_device, or NoValue
    nOps,           \* number of controller methods and GUI events so far
    win,            \* MainWindow: "none" | "new" | "running" | "deleted"
    _curr_mode,     \* MainWindow._curr_mode: "None" or a button text
    _controller,    \* MainWindow._controller: "None" | "ActiveX" | "DLL",
                    \* or "undefined" once the attribute is deleted
    _interface,     \* MainWindow._interface: "ActiveX" | "DLL"
    ctlId,          \* identity of the controller object the window holds
    constructed,    \* controller objects constructed so far
    disabled,       \* controller objects on which disable_override was called
    discarded,      \* controller objects no longer referenced
    dllPresent,     \* whether D4100_usb.dll is there for ctypes.CDLL to load
    lastEvent       \* the last GUI handler run and the exception it let out

guiVars == <<win, _curr_mode, _controller, _interface, ctlId, constructed,
             disabled, discarded, dllPresent, lastEvent>>

vars == <<backend, devEnable, devValue, devAttached, frameBuffer, dmdMemory,
          dmdMirrors, dmdType, calls, lastOp, prevOp, lastSetMode, history,
          lastEnableSent, lastValueSent, device_numbers, nOps, guiVars>>

(***************************************************************************)
(* Bounds of the model.                                                    *)
(***************************************************************************)
MaxOps == 4

\* calls made in a run of the connection and image operations
MaxImageOps == 3

(***************************************************************************)
(* Values of the program.                                                  *)
(***************************************************************************)
NoValue == -1

Backends == {"ActiveX", "DLL"}

\* DMDType values answered by GetDMDTYPE (check_DMD_type docstring)
DMDTypes == {0, 1, 7, 15}

\* image paths handed to the image operations
Paths == {"frame_0001.jpg", "missing.jpg"}

\* files the backend can read
FilesOnDisk == {"frame_0001.jpg"}

\* device indexes handed to connect_device; the bus holds NumDevices boards
DeviceIds == {0, 1, 2}

NumDevices == 1

\* blocks of mirrors on the DMD; a block_number above NumBlocks means all
NumBlocks == 16

Blocks == 1..NumBlocks

BlockNumbers == {1, 17}

Targets(block_number) ==
    IF block_number > NumBlocks THEN Blocks ELSE {block_number}

\* return codes of the backend's image calls; 1 is the code the layer
\* takes as success
ResultCodes == {0, 1}

\* ctypes.c_short: a signed 16-bit integer
c_short(v) == ((v + 32768) % 65536) - 32768

\* Python's bool() and int() on the values the code applies them to
bool(v) == IF v = 0 THEN 0 ELSE 1

int(b) == IF b THEN 1 ELSE 0

(***************************************************************************)
(* customexceptions.py                                                     *)
(***************************************************************************)
NoExc == [type |-> "none", value |-> NoValue, path |-> "", msg |-> ""]

SetSWOverrideValueError(value) ==
    [type |-> "SetSWOverrideValueError", value |-> value, path |-> "",
     msg |-> "Failed to set SW override value"]

EnableSWOverrideError(value) ==
    [type |-> "EnableSWOverrideError", value |-> NoValue, path |-> "",
     msg |-> IF value = 1 THEN "Failed to Enable Software Override"
                          ELSE "Failed to Disable Software Override"]

ConnectDeviceError ==
    [type |-> "ConnectDeviceError", value |-> NoValue, path |-> "",
     msg |-> "Failed to connect to USB device"]

BufferUploadError(path) ==
    [type |-> "BufferUploadError", value |-> NoValue, path |-> path,
     msg |-> "Failed to load buffer with image"]

(***************************************************************************)
(* A backend call as it crosses the layer's boundary.                      *)
(***************************************************************************)
Call(fn, args, path) == [fn |-> fn, args |-> args, path |-> path]

\* The record kept of a finished controller method.
\* says: what the backend answered to the method's call, "success",
\* "failure", or "none" when the method's outcome rests on no backend answer.
Op(name, arg, path, says, outcome, exc, ret) ==
    [name |-> name, arg |-> arg, path |-> path, says |-> says,
     outcome |-> outcome, exc |-> exc, ret |-> ret]

Says(accepted) == IF accepted THEN "success" ELSE "failure"

\* The record kept of a finished GUI handler; exc is the exception that
\* left the handler, "none" when it returned.
Event(name, arg, exc) == [name |-> name, arg |-> arg, exc |-> exc]

SetModeOps == {"set_single", "set_dual", "set_quad", "set_global"}

Finish(op) ==
    /\ lastOp' = op
    /\ prevOp' = lastOp.name
    /\ lastSetMode' = IF op.name \in SetModeOps THEN op ELSE lastSetMode
    /\ history' = Append(history, [name |-> op.name, path |-> op.path,
                                   says |-> op.says, outcome |-> op.outcome])
    /\ nOps' = nOps + 1

\* the device and the call record before any method is called
InitDevice ==
    /\ devEnable \in {0, 1}
    /\ devValue = 0
    /\ devAttached = 0
    /\ frameBuffer = ""
    /\ dmdMemory = [b \in Blocks |-> ""]
    /\ dmdMirrors = [b \in Blocks |-> ""]
    /\ dmdType = 1
    /\ calls = <<>>
    /\ lastOp = Op("__init__", NoValue, "", "none", "return", NoExc, NoValue)
    /\ prevOp = ""
    /\ lastSetMode = Op("none", NoValue, "", "none", "return", NoExc, NoValue)
    /\ history = <<>>
    /\ lastEnableSent = NoValue
    /\ lastValueSent = NoValue
    /\ device_numbers = NoValue
    /\ nOps = 0

\* a controller of either class, constructed by a caller that is no window
Init ==
    /\ InitDevice
    /\ backend \in Backends
    /\ win = "none"
    /\ _curr_mode = "None"
    /\ _controller = "None"
    /\ _interface = "ActiveX"
    /\ ctlId = 0
    /\ constructed = {}
    /\ disabled = {}
    /\ discarded = {}
    /\ dllPresent = TRUE
    /\ lastEvent = Event("none", "", "none")

(***************************************************************************)
(* _set_sw_override_value of both backends: SetSWOverrideValue then        *)
(* GetSWOverrideValue; the return code of the write is not looked at, and  *)
(* no backend call raises SetSWOverrideValueError, so the except clause    *)
(* never runs.  The DLL passes device index 0 as second argument.          *)
(***************************************************************************)
SetSWOverrideValueCall(kind, value) ==
    IF kind = "DLL" THEN Call("SetSWOverrideValue", <<c_short(value), 0>>, "")
                    ELSE Call("SetSWOverrideValue", <<value>>, "")

\* a layer that enables override on the caller's behalf before the write
_set_sw_override_value_autoenable(kind, value, accepted) ==
    /\ calls' = <<Call("SetSWOverrideEnable", <<1>>, ""),
                  SetSWOverrideValueCall(kind, value),
                  Call("GetSWOverrideValue", <<>>, "")>>
    /\ devEnable' = 1
    /\ lastEnableSent' = 1
    /\ devValue' = IF accepted THEN c_short(value) ELSE devValue
    /\ lastValueSent' = value
    /\ UNCHANGED <<devAttached, frameBuffer, dmdMemory, dmdMirrors, dmdType,
                   device_numbers>>

_set_sw_override_value(kind, value, accepted) ==
    /\ calls' = <<SetSWOverrideValueCall(kind, value),
                  Call("GetSWOverrideValue", <<>>, "")>>
    /\ devValue' = IF accepted THEN c_short(value) ELSE devValue
    /\ lastValueSent' = value
    /\ UNCHANGED <<devEnable, devAttached, frameBuffer, dmdMemory, dmdMirrors,
                   dmdType, lastEnableSent, device_numbers>>

(***************************************************************************)
(* _set_sw_override_enable of both backends: SetSWOverrideEnable; the      *)
(* result is returned to enable_override/disable_override, which drop it.  *)
(***************************************************************************)
\* a layer that clears the override value when it disables override
_set_sw_override_enable_clearing(kind, value, accepted) ==
    /\ calls' = IF value = 0
                THEN <<Call("SetSWOverrideEnable", <<value>>, ""),
                       SetSWOverrideValueCall(kind, 0)>>
                ELSE <<Call("SetSWOverrideEnable", <<value>>, "")>>
    /\ devEnable' = IF accepted THEN value ELSE devEnable
    /\ lastEnableSent' = value
    /\ devValue' = IF value = 0 /\ accepted THEN 0 ELSE devValue
    /\ lastValueSent' = IF value = 0 THEN 0 ELSE lastValueSent
    /\ UNCHANGED <<devAttached, frameBuffer, dmdMemory, dmdMirrors, dmdType,
                   device_numbers>>

_set_sw_override_enable(kind, value, accepted) ==
    /\ calls' = <<Call("SetSWOverrideEnable", <<value>>, "")>>
    /\ devEnable' = IF accepted THEN value ELSE devEnable
    /\ lastEnableSent' = value
    /\ UNCHANGED <<devValue, devAttached, frameBuffer, dmdMemory, dmdMirrors,
                   dmdType, lastValueSent, device_numbers>>

\* DLPControllerBase.enable_override
ctl_enable_override(kind, accepted) ==
    /\ _set_sw_override_enable(kind, 1, accepted)
    /\ Finish(Op("enable_override", 1, "", Says(accepted), "return", NoExc,
                 NoValue))

\* disable_override with the enable value in place of the disable value
ctl_disable_override_one(kind, accepted) ==
    /\ _set_sw_override_enable(kind, 1, accepted)
    /\ Finish(Op("disable_override", 1, "", Says(accepted), "return", NoExc,
                 NoValue))

\* DLPControllerBase.disable_override
ctl_disable_override(kind, accepted) ==
    /\ _set_sw_override_enable(kind, 0, accepted)
    /\ Finish(Op("disable_override", 0, "", Says(accepted), "return", NoExc,
                 NoValue))

\* DLPControllerBase.set_single / set_dual / set_quad / set_global
ctl_set_single(kind, accepted) ==
    /\ _set_sw_override_value(kind, 0, accepted)
    /\ Finish(Op("set_single", NoValue, "", Says(accepted), "return", NoExc,
                 NoValue))

ctl_set_dual(kind, accepted) ==
    /\ _set_sw_override_value(kind, 16, accepted)
    /\ Finish(Op("set_dual", NoValue, "", Says(accepted), "return", NoExc,
                 NoValue))

\* set_quad with the register value of the global mode
ctl_set_quad_global(kind, accepted) ==
    /\ _set_sw_override_value(kind, 32, accepted)
    /\ Finish(Op("set_quad", NoValue, "", Says(accepted), "return", NoExc,
                 NoValue))

ctl_set_quad(kind, accepted) ==
    /\ _set_sw_override_value(kind, 48, accepted)
    /\ Finish(Op("set_quad", NoValue, "", Says(accepted), "return", NoExc,
                 NoValue))

ctl_set_global(kind, accepted) ==
    /\ _set_sw_override_value(kind, 32, accepted)
    /\ Finish(Op("set_global", NoValue, "", Says(accepted), "return", NoExc,
                 NoValue))

(***************************************************************************)
(* DLPControllerActiveX.connect_device: GetNumDevices, then ConnectDevice. *)
(* Neither call raises ConnectDeviceError and no return code is looked at, *)
(* so the method returns None whatever the backend did.  The backend       *)
(* attaches a board only for an index it holds (1..NumDevices).            *)
(***************************************************************************)
ValidDeviceId(id) == id >= 1 /\ id <= NumDevices

ctl_connect_device(id, connected, attached) ==
    /\ calls' = <<Call("GetNumDevices", <<>>, ""),
                  Call("ConnectDevice", <<id>>, "D4100_GUI_FPGA.bin")>>
    /\ device_numbers' = NumDevices
    /\ devAttached' = attached
    /\ UNCHANGED <<devEnable, devValue, frameBuffer, dmdMemory, dmdMirrors,
                   dmdType, lastEnableSent, lastValueSent>>
    /\ Finish(Op("connect_device", id, "", Says(connected), "return", NoExc,
                 NoValue))

\* DLPControllerActiveX.check_device
ctl_check_device ==
    /\ calls' = <<Call("IsDeviceAttached", <<>>, "")>>
    /\ UNCHANGED <<devEnable, devValue, devAttached, frameBuffer, dmdMemory,
                   dmdMirrors, dmdType, lastEnableSent, lastValueSent,
                   device_numbers>>
    /\ Finish(Op("check_device", NoValue, "", "none", "return", NoExc,
                 bool(devAttached)))

(***************************************************************************)
(* DLPControllerActiveX.load_image_to_buffer: FileToFrameBuffer; a result  *)
(* other than 1 raises BufferUploadError(image_path), else bool(result)    *)
(* is returned.                                                            *)
(***************************************************************************)
\* load_image_to_buffer that logs the failure and returns bool(result),
\* as load_buffer_to_DMD does
load_image_to_buffer_swallow(image_path, mirrored, result) ==
    Op("load_image_to_buffer", int(mirrored), image_path, Says(result = 1),
       "return", NoExc, bool(result))

load_image_to_buffer_op(image_path, mirrored, result) ==
    IF result # 1
    THEN Op("load_image_to_buffer", int(mirrored), image_path,
            Says(result = 1), "raise",
            BufferUploadError(image_path), NoValue)
    ELSE Op("load_image_to_buffer", int(mirrored), image_path,
            Says(result = 1), "return",
            NoExc, bool(result))

ctl_load_image_to_buffer(image_path, mirrored, result) ==
    /\ calls' = <<Call("FileToFrameBuffer", <<int(mirrored)>>, image_path)>>
    /\ frameBuffer' = IF result = 1 THEN image_path ELSE frameBuffer
    /\ UNCHANGED <<devEnable, devValue, devAttached, dmdMemory, dmdMirrors,
                   dmdType, lastEnableSent, lastValueSent, device_numbers>>
    /\ Finish(load_image_to_buffer_op(image_path, mirrored, result))

(***************************************************************************)
(* DLPControllerActiveX.load_buffer_to_DMD: LoadToDMD; a result other than *)
(* 1 is logged and bool(result) is returned.                               *)
(***************************************************************************)
load_buffer_to_DMD_op(block_number, result) ==
    Op("load_buffer_to_DMD", block_number, "", Says(result = 1), "return",
       NoExc, bool(result))

ctl_load_buffer_to_DMD(block_number, reset_flag, Load4, result) ==
    /\ calls' = <<Call("LoadToDMD",
                       <<block_number, int(reset_flag), int(Load4)>>, "")>>
    /\ dmdMemory' = IF result = 1
                    THEN [b \in Blocks |->
                            IF b \in Targets(block_number) THEN frameBuffer
                                                           ELSE dmdMemory[b]]
                    ELSE dmdMemory
    /\ dmdMirrors' = IF result = 1 /\ int(reset_flag) # 0
                     THEN [b \in Blocks |->
                             IF b \in Targets(block_number) THEN frameBuffer
                                                            ELSE dmdMirrors[b]]
                     ELSE dmdMirrors
    /\ UNCHANGED <<devEnable, devValue, devAttached, frameBuffer, dmdType,
                   lastEnableSent, lastValueSent, device_numbers>>
    /\ Finish(load_buffer_to_DMD_op(block_number, result))

\* a Reset that shows the frame buffer instead of the DMD memory
ctl_reset_from_buffer(block_number, result) ==
    /\ calls' = <<Call("Reset", <<block_number>>, "")>>
    /\ dmdMirrors' = IF result = 1
                     THEN [b \in Blocks |->
                             IF b \in Targets(block_number) THEN frameBuffer
                                                            ELSE dmdMirrors[b]]
                     ELSE dmdMirrors
    /\ UNCHANGED <<devEnable, devValue, devAttached, frameBuffer, dmdMemory,
                   dmdType, lastEnableSent, lastValueSent, device_numbers>>
    /\ Finish(Op("reset", block_number, "", Says(result = 1), "return", NoExc,
                 bool(result)))

\* DLPControllerActiveX.reset: Reset(block); bool(result) is returned
ctl_reset(block_number, result) ==
    /\ calls' = <<Call("Reset", <<block_number>>, "")>>
    /\ dmdMirrors' = IF result = 1
                     THEN [b \in Blocks |->
                             IF b \in Targets(block_number) THEN dmdMemory[b]
                                                            ELSE dmdMirrors[b]]
                     ELSE dmdMirrors
    /\ UNCHANGED <<devEnable, devValue, devAttached, frameBuffer, dmdMemory,
                   dmdType, lastEnableSent, lastValueSent, device_numbers>>
    /\ Finish(Op("reset", block_number, "", Says(result = 1), "return", NoExc,
                 bool(result)))

\* DLPControllerActiveX.clear: Clear(block, reset); bool(result) is returned
ctl_clear(block_number, reset_flag, result) ==
    /\ calls' = <<Call("Clear", <<block_number, int(reset_flag)>>, "")>>
    /\ dmdMemory' = IF result = 1
                    THEN [b \in Blocks |->
                            IF b \in Targets(block_number) THEN ""
                                                           ELSE dmdMemory[b]]
                    ELSE dmdMemory
    /\ dmdMirrors' = IF result = 1 /\ int(reset_flag) # 0
                     THEN [b \in Blocks |->
                             IF b \in Targets(block_number) THEN ""
                                                            ELSE dmdMirrors[b]]
                     ELSE dmdMirrors
    /\ UNCHANGED <<devEnable, devValue, devAttached, frameBuffer, dmdType,
                   lastEnableSent, lastValueSent, device_numbers>>
    /\ Finish(Op("clear", block_number, "", Says(result = 1), "return", NoExc,
                 bool(result)))

(***************************************************************************)
(* DLPControllerDLL.load_image_buffer: np.fromfile (FileNotFoundError for  *)
(* a file that is not there), GetDMDTYPE(0), LoadData(data, length,        *)
(* dmd_type, 0); a result other than 1 is logged and None is returned.     *)
(***************************************************************************)
FileNotFoundError(path) ==
    [type |-> "FileNotFoundError", value |-> NoValue, path |-> path,
     msg |-> "No such file or directory"]

load_image_buffer_op(image_path, result) ==
    Op("load_image_buffer", NoValue, image_path, Says(result = 1), "return",
       NoExc, NoValue)

\* load_image_buffer with the device type read once, when the controller
\* was constructed, instead of in the call
ctl_load_image_buffer_cached(image_path, result) ==
    IF image_path \notin FilesOnDisk
    THEN /\ calls' = <<>>
         /\ UNCHANGED <<devEnable, devValue, devAttached, frameBuffer,
                        dmdMemory, dmdMirrors, dmdType, lastEnableSent,
                        lastValueSent, device_numbers>>
         /\ Finish(Op("load_image_buffer", NoValue, image_path, "none", "raise",
                      FileNotFoundError(image_path), NoValue))
    ELSE /\ calls' = <<Call("LoadData", <<c_short(1), c_short(0)>>,
                            image_path)>>
         /\ dmdMemory' = IF result = 1 THEN [b \in Blocks |-> image_path]
                                       ELSE dmdMemory
         /\ UNCHANGED <<devEnable, devValue, devAttached, frameBuffer,
                        dmdMirrors, dmdType, lastEnableSent, lastValueSent,
                        device_numbers>>
         /\ Finish(load_image_buffer_op(image_path, result))

ctl_load_image_buffer(image_path, result) ==
    IF image_path \notin FilesOnDisk
    THEN /\ calls' = <<>>
         /\ UNCHANGED <<devEnable, devValue, devAttached, frameBuffer,
                        dmdMemory, dmdMirrors, dmdType, lastEnableSent,
                        lastValueSent, device_numbers>>
         /\ Finish(Op("load_image_buffer", NoValue, image_path, "none", "raise",
                      FileNotFoundError(image_path), NoValue))
    ELSE /\ calls' = <<Call("GetDMDTYPE", <<c_short(0)>>, ""),
                       Call("LoadData", <<c_short(dmdType), c_short(0)>>,
                            image_path)>>
         /\ dmdMemory' = IF result = 1 THEN [b \in Blocks |-> image_path]
                                       ELSE dmdMemory
         /\ UNCHANGED <<devEnable, devValue, devAttached, frameBuffer,
                        dmdMirrors, dmdType, lastEnableSent, lastValueSent,
                        device_numbers>>
         /\ Finish(load_image_buffer_op(image_path, result))

(***************************************************************************)
(* The controller driven by an arbitrary caller.                           *)
(***************************************************************************)
enable_override ==
    /\ nOps < MaxOps
    /\ \E accepted \in BOOLEAN : ctl_enable_override(backend, accepted)
    /\ UNCHANGED <<backend, guiVars>>

disable_override ==
    /\ nOps < MaxOps
    /\ \E accepted \in BOOLEAN : ctl_disable_override(backend, accepted)
    /\ UNCHANGED <<backend, guiVars>>

set_single ==
    /\ nOps < MaxOps
    /\ \E accepted \in BOOLEAN : ctl_set_single(backend, accepted)
    /\ UNCHANGED <<backend, guiVars>>

set_dual ==
    /\ nOps < MaxOps
    /\ \E accepted \in BOOLEAN : ctl_set_dual(backend, accepted)
    /\ UNCHANGED <<backend, guiVars>>

set_quad ==
    /\ nOps < MaxOps
    /\ \E accepted \in BOOLEAN : ctl_set_quad(backend, accepted)
    /\ UNCHANGED <<backend, guiVars>>

set_global ==
    /\ nOps < MaxOps
    /\ \E accepted \in BOOLEAN : ctl_set_global(backend, accepted)
    /\ UNCHANGED <<backend, guiVars>>

Next ==
    \/ enable_override
    \/ disable_override
    \/ set_single
    \/ set_dual
    \/ set_quad
    \/ set_global

Spec == Init /\ [][Next]_vars

(***************************************************************************)
(* The connection and image operations driven by an arbitrary caller: the  *)
(* ActiveX controller has connect_device .. clear, the DLL controller has  *)
(* load_image_buffer.                                                      *)
(***************************************************************************)
connect_device ==
    /\ nOps < MaxImageOps
    /\ backend = "ActiveX"
    /\ \E id \in DeviceIds :
         \E connected \in (IF ValidDeviceId(id) THEN BOOLEAN ELSE {FALSE}) :
            \E attached \in (IF connected THEN {1} ELSE {0, devAttached}) :
               ctl_connect_device(id, connected, attached)
    /\ UNCHANGED <<backend, guiVars>>

check_device ==
    /\ nOps < MaxImageOps
    /\ backend = "ActiveX"
    /\ ctl_check_device
    /\ UNCHANGED <<backend, guiVars>>

load_image_to_buffer ==
    /\ nOps < MaxImageOps
    /\ backend = "ActiveX"
    /\ \E image_path \in Paths, mirrored \in BOOLEAN :
         \E result \in (IF image_path \in FilesOnDisk THEN ResultCodes
                                                      ELSE ResultCodes \ {1}) :
            ctl_load_image_to_buffer(image_path, mirrored, result)
    /\ UNCHANGED <<backend, guiVars>>

load_buffer_to_DMD ==
    /\ nOps < MaxImageOps
    /\ backend = "ActiveX"
    /\ \E block_number \in BlockNumbers, reset_flag \in BOOLEAN,
          result \in ResultCodes :
            ctl_load_buffer_to_DMD(block_number, reset_flag, FALSE, result)
    /\ UNCHANGED <<backend, guiVars>>

reset ==
    /\ nOps < MaxImageOps
    /\ backend = "ActiveX"
    /\ \E block_number \in BlockNumbers, result \in ResultCodes :
            ctl_reset(block_number, result)
    /\ UNCHANGED <<backend, guiVars>>

clear ==
    /\ nOps < MaxImageOps
    /\ backend = "ActiveX"
    /\ \E block_number \in BlockNumbers, reset_flag \in BOOLEAN,
          result \in ResultCodes :
            ctl_clear(block_number, reset_flag, result)
    /\ UNCHANGED <<backend, guiVars>>

load_image_buffer ==
    /\ nOps < MaxImageOps
    /\ backend = "DLL"
    /\ \E image_path \in Paths, result \in ResultCodes :
            ctl_load_image_buffer(image_path, result)
    /\ UNCHANGED <<backend, guiVars>>

\* The board behind the controller is exchanged for one of another type:
\* GetDMDTYPE answers the new type from then on.
HotSwap ==
    /\ nOps < MaxImageOps
    /\ \E t \in DMDTypes \ {dmdType} : dmdType' = t
    /\ nOps' = nOps + 1
    /\ UNCHANGED <<backend, devEnable, devValue, devAttached, frameBuffer,
                   dmdMemory, dmdMirrors, calls, lastOp, prevOp, lastSetMode,
                   history, lastEnableSent, lastValueSent, device_numbers,
                   guiVars>>

ImageNext ==
    \/ connect_device
    \/ check_device
    \/ load_image_to_buffer
    \/ load_buffer_to_DMD
    \/ reset
    \/ clear
    \/ load_image_buffer
    \/ HotSwap

ImageSpec == Init /\ [][ImageNext]_vars
(***************************************************************************)
(* dmdgui.py: MainWindow.  A handler is one action.  Reading or deleting   *)
(* self._controller after `del self._controller` was not followed by an    *)
(* assignment raises AttributeError, which ends the handler.               *)
(***************************************************************************)
Buttons == {"Global", "Single", "Dual", "Quad"}

\* the handler ran no controller method: the call record stays as it was
NoControllerCall ==
    /\ nOps' = nOps + 1
    /\ UNCHANGED <<devEnable, devValue, devAttached, frameBuffer, dmdMemory,
                   dmdMirrors, dmdType, calls, lastOp, prevOp, lastSetMode,
                   history, lastEnableSent, lastValueSent, device_numbers>>

GuiInit ==
    /\ InitDevice
    /\ backend = "none"
    /\ win = "new"
    /\ _curr_mode = "None"
    /\ _controller = "None"
    /\ _interface = "ActiveX"
    /\ ctlId = 0
    /\ constructed = {}
    /\ disabled = {}
    /\ discarded = {}
    /\ dllPresent \in BOOLEAN
    /\ lastEvent = Event("none", "", "none")

(***************************************************************************)
(* MainWindow.__init__: _interface is 'ActiveX', so DLPControllerActiveX   *)
(* is constructed and enable_override() called on it; enable_override      *)
(* never raises, so neither except clause runs.                            *)
(***************************************************************************)
MainWindow_init ==
    /\ win = "new"
    /\ nOps < MaxOps
    /\ \E accepted \in BOOLEAN : ctl_enable_override("ActiveX", accepted)
    /\ backend' = "ActiveX"
    /\ _curr_mode' = "None"
    /\ _interface' = "ActiveX"
    /\ _controller' = "ActiveX"
    /\ ctlId' = ctlId + 1
    /\ constructed' = constructed \cup {ctlId + 1}
    /\ win' = "running"
    /\ lastEvent' = Event("__init__", "", "none")
    /\ UNCHANGED <<disabled, discarded, dllPresent>>

\* the set-mode method button_clicked calls for a button text
ctl_set_mode(button_text, kind, accepted) ==
    CASE button_text = "Global" -> ctl_set_global(kind, accepted)
      [] button_text = "Single" -> ctl_set_single(kind, accepted)
      [] button_text = "Dual"   -> ctl_set_dual(kind, accepted)
      [] button_text = "Quad"   -> ctl_set_quad(kind, accepted)

(***************************************************************************)
(* MainWindow.button_clicked: the set-mode call is made when the text is   *)
(* not _curr_mode and a controller is held; _curr_mode is set to the text  *)
(* whether or not the call was made.                                       *)
(***************************************************************************)
button_clicked ==
    /\ win = "running"
    /\ nOps < MaxOps
    /\ \E button_text \in Buttons :
         IF _curr_mode # button_text /\ _controller = "undefined"
         THEN /\ NoControllerCall
              /\ lastEvent' = Event("button_clicked", button_text,
                                    "AttributeError")
              /\ UNCHANGED _curr_mode
         ELSE /\ IF _curr_mode # button_text /\ _controller # "None"
                 THEN \E accepted \in BOOLEAN :
                         ctl_set_mode(button_text, _controller, accepted)
                 ELSE NoControllerCall
              /\ _curr_mode' = button_text
              /\ lastEvent' = Event("button_clicked", button_text, "none")
    /\ UNCHANGED <<backend, win, _controller, _interface, ctlId, constructed,
                   disabled, discarded, dllPresent>>

(***************************************************************************)
(* MainWindow.switch_interface: _interface is toggled, the held controller *)
(* is dropped with `del self._controller`, and a controller of the new     *)
(* class is constructed and enable_override() called on it.  ctypes.CDLL   *)
(* raises FileNotFoundError when the DLL is not there; the handler catches *)
(* it and _controller stays deleted.                                       *)
(***************************************************************************)
Toggle(interface) == IF interface = "ActiveX" THEN "DLL" ELSE "ActiveX"

switch_interface ==
    /\ win = "running"
    /\ nOps < MaxOps
    /\ _interface' = Toggle(_interface)
    /\ IF _controller = "undefined"
       THEN /\ NoControllerCall
            /\ lastEvent' = Event("switch_interface", "", "AttributeError")
            /\ UNCHANGED <<backend, _controller, ctlId, constructed,
                           discarded>>
       ELSE /\ discarded' = IF _controller \in Backends
                            THEN discarded \cup {ctlId} ELSE discarded
            /\ lastEvent' = Event("switch_interface", "", "none")
            /\ IF Toggle(_interface) = "DLL" /\ ~dllPresent
               THEN /\ NoControllerCall
                    /\ _controller' = "undefined"
                    /\ UNCHANGED <<backend, ctlId, constructed>>
               ELSE /\ \E accepted \in BOOLEAN :
                         ctl_enable_override(Toggle(_interface), accepted)
                    /\ backend' = Toggle(_interface)
                    /\ _controller' = Toggle(_interface)
                    /\ ctlId' = ctlId + 1
                    /\ constructed' = constructed \cup {ctlId + 1}
    /\ UNCHANGED <<win, _curr_mode, disabled, dllPresent>>

(***************************************************************************)
(* MainWindow.__del__: disable_override() on the held controller, if any;  *)
(* the controller goes with the window.                                    *)
(***************************************************************************)
MainWindow_del ==
    /\ win = "running"
    /\ nOps < MaxOps
    /\ IF _controller = "undefined"
       THEN /\ NoControllerCall
            /\ lastEvent' = Event("__del__", "", "AttributeError")
            /\ UNCHANGED <<disabled, discarded>>
       ELSE /\ IF _controller # "None"
               THEN /\ \E accepted \in BOOLEAN :
                         ctl_disable_override(_controller, accepted)
                    /\ disabled' = disabled \cup {ctlId}
                    /\ discarded' = discarded \cup {ctlId}
               ELSE /\ NoControllerCall
                    /\ UNCHANGED <<disabled, discarded>>
            /\ lastEvent' = Event("__del__", "", "none")
    /\ win' = "deleted"
    /\ UNCHANGED <<backend, _curr_mode, _controller, _interface, ctlId,
                   constructed, dllPresent>>

(***************************************************************************)
(* MainWindow.load_image_button_clicked: load_image_buffer on the held     *)
(* controller for the chosen file; every exception is caught and shown.    *)
(* Only the DLL controller has load_image_buffer.                          *)
(***************************************************************************)
load_image_button_clicked ==
    /\ win = "running"
    /\ nOps < MaxOps
    /\ \E image_path \in Paths \cup {""} :
         /\ IF image_path # "" /\ _controller = "DLL"
            THEN \E result \in ResultCodes :
                    ctl_load_image_buffer(image_path, result)
            ELSE NoControllerCall
         /\ lastEvent' = Event("load_image_button_clicked", image_path, "none")
    /\ UNCHANGED <<backend, win, _curr_mode, _controller, _interface, ctlId,
                   constructed, disabled, discarded, dllPresent>>

GuiNext ==
    \/ MainWindow_init
    \/ button_clicked
    \/ switch_interface
    \/ MainWindow_del
    \/ load_image_button_clicked

GuiSpec == GuiInit /\ [][GuiNext]_vars

(***************************************************************************)
(* Properties of the update-mode and override operations (Spec).           *)
(***************************************************************************)
\* the register value documented for each update mode: Single 0x00,
\* Dual 0x10, Quad 0x30, Global 0x20
DocumentedValue(name) ==
    CASE name = "set_single" -> 0
      [] name = "set_dual"   -> 16
      [] name = "set_quad"   -> 48
      [] name = "set_global" -> 32

\* positions of the calls of fn among the backend calls of the last method
CallsOf(fn) == {i \in 1..Len(calls) : calls[i].fn = fn}

\* what GetSWOverrideValue answers
GetSWOverrideValue == devValue

\* C1: one call of set_single/set_dual/set_quad/set_global issues exactly one
\* SetSWOverrideValue call, on either backend, and its value argument is the
\* register value documented for that mode.
C1_ModeTransmitsDocumentedValue ==
    lastOp.name \in SetModeOps =>
        /\ Cardinality(CallsOf("SetSWOverrideValue")) = 1
        /\ \A i \in CallsOf("SetSWOverrideValue") :
              calls[i].args[1] = DocumentedValue(lastOp.name)

C1_Witness ==
    /\ lastOp.name = "set_quad"
    /\ backend = "DLL"
    /\ calls[1] = Call("SetSWOverrideValue", <<48, 0>>, "")

\* C2: enable_override() followed immediately by disable_override() ends
\* with 0 as the last value written to the override-enable register, whatever
\* was there before; and the device register is 0 when the backend took the
\* write.
C2_EnableThenDisableLeavesZero ==
    (prevOp = "enable_override" /\ lastOp.name = "disable_override") =>
        /\ lastEnableSent = 0
        /\ calls = <<Call("SetSWOverrideEnable", <<0>>, "")>>
        /\ (lastOp.says = "success" => devEnable = 0)

C2_Witness ==
    /\ prevOp = "enable_override"
    /\ lastOp.name = "disable_override"
    /\ lastOp.says = "success"
    /\ devEnable = 0

\* C3: enable_override()/disable_override() raise EnableSWOverrideError for
\* the attempted value whenever the backend does not confirm the write.
C3_EnableFailureRaises ==
    (lastOp.name \in {"enable_override", "disable_override"}
        /\ lastOp.says = "failure") =>
        /\ lastOp.outcome = "raise"
        /\ lastOp.exc = EnableSWOverrideError(lastOp.arg)

\* C4: a set-mode call whose write the backend rejects raises
\* SetSWOverrideValueError carrying the attempted register value.
C4_SetModeFailureRaises ==
    (lastOp.name \in SetModeOps /\ lastOp.says = "failure") =>
        /\ lastOp.outcome = "raise"
        /\ lastOp.exc = SetSWOverrideValueError(DocumentedValue(lastOp.name))

\* C9: a set-mode call issues the override-value write and the read-back and
\* nothing else, whatever the override-enable state: it writes nothing to the
\* enable register, leaves it as it was, and raises no error of its own.
C9_SetModeNotGuardedByOverride ==
    [][(nOps' = nOps + 1 /\ lastOp'.name \in SetModeOps) =>
          /\ calls' = <<SetSWOverrideValueCall(backend,
                                               DocumentedValue(lastOp'.name)),
                        Call("GetSWOverrideValue", <<>>, "")>>
          /\ devEnable' = devEnable
          /\ lastEnableSent' = lastEnableSent
          /\ lastOp'.outcome = "return"]_vars

C9_Witness ==
    /\ lastOp.name = "set_dual"
    /\ prevOp = "disable_override"
    /\ devEnable = 0
    /\ lastEnableSent = 0
    /\ lastOp.says = "success"
    /\ GetSWOverrideValue = 16

\* C10: once set_quad() has returned, GetSWOverrideValue answers 0x30 until
\* the next set-mode call, enable_override() and disable_override() included.
C10_QuadReadsBack ==
    (lastSetMode.name = "set_quad" /\ lastSetMode.outcome = "return") =>
        GetSWOverrideValue = 48

\* The read-back holds when the backend took the write: enable_override()
\* and disable_override() leave the override value alone.
QuadTakenReadsBack ==
    (lastSetMode.name = "set_quad" /\ lastSetMode.says = "success") =>
        GetSWOverrideValue = 48

\* the scenario of C11: construction, enable_override(), set_dual(),
\* disable_override(), and nothing else
DualScenario ==
    /\ Len(history) = 3
    /\ history[1].name = "enable_override"
    /\ history[2].name = "set_dual"
    /\ history[3].name = "disable_override"

\* C11: construct, enable_override(), set_dual(), disable_override(): no
\* call raises, the last value written to the enable register is 0 and the
\* last override value written is 0x10; disable_override() writes the enable
\* register only and leaves the override value, set_dual() leaves the enable
\* register.
C11_DualScenario ==
    [][/\ DualScenario' =>
            /\ \A i \in 1..3 : history'[i].outcome = "return"
            /\ lastEnableSent' = 0
            /\ lastValueSent' = 16
       /\ (nOps' = nOps + 1 /\ lastOp'.name = "disable_override") =>
            /\ calls' = <<Call("SetSWOverrideEnable", <<0>>, "")>>
            /\ lastValueSent' = lastValueSent
            /\ devValue' = devValue
       /\ (nOps' = nOps + 1 /\ lastOp'.name = "set_dual") =>
            /\ CallsOf("SetSWOverrideEnable")' = {}
            /\ lastEnableSent' = lastEnableSent
            /\ devEnable' = devEnable]_vars

C11_Witness ==
    /\ DualScenario
    /\ lastEnableSent = 0
    /\ lastValueSent = 16
    /\ devEnable = 0
    /\ GetSWOverrideValue = 16

(***************************************************************************)
(* Properties of the connection and image operations (ImageSpec).          *)
(***************************************************************************)
\* C5: load_image_to_buffer(path) that the backend does not load raises
\* BufferUploadError(path) and leaves the frame buffer and the DMD content
\* as they were.
C5_FailedLoadRaisesAndKeepsBuffer ==
    [][(nOps' = nOps + 1 /\ lastOp'.name = "load_image_to_buffer"
            /\ lastOp'.says = "failure") =>
          /\ lastOp'.outcome = "raise"
          /\ lastOp'.exc = BufferUploadError(lastOp'.path)
          /\ calls' = <<Call("FileToFrameBuffer", <<lastOp'.arg>>,
                             lastOp'.path)>>
          /\ frameBuffer' = frameBuffer
          /\ dmdMemory' = dmdMemory
          /\ dmdMirrors' = dmdMirrors]_vars

C5_Witness ==
    /\ lastOp.name = "load_image_to_buffer"
    /\ lastOp.path = "missing.jpg"
    /\ lastOp.outcome = "raise"
    /\ lastOp.exc = BufferUploadError("missing.jpg")
    /\ frameBuffer = "frame_0001.jpg"

\* the states of the image path
Buffered == frameBuffer # ""

Displayed == \E b \in Blocks : dmdMirrors[b] # ""

ImageOps == {"load_image_to_buffer", "load_buffer_to_DMD", "reset", "clear"}

\* a connect_device the backend answered with success has been made
EverConnected ==
    \E i \in 1..Len(history) :
        history[i].name = "connect_device" /\ history[i].says = "success"

\* positions in the history of the successful load_image_to_buffer(path)
BufferedAt(path) ==
    {i \in 1..Len(history) :
        /\ history[i].name = "load_image_to_buffer"
        /\ history[i].path = path
        /\ history[i].says = "success"}

\* positions in the history of the successful load_buffer_to_DMD
LoadedAt ==
    {i \in 1..Len(history) :
        history[i].name = "load_buffer_to_DMD" /\ history[i].says = "success"}

\* the step is a call of the named method that the backend answered with
\* success
SucceededStep(name) ==
    /\ Len(history') = Len(history) + 1
    /\ lastOp'.name = name
    /\ lastOp'.says = "success"

C13_TypeQueriedPerLoad ==
    [][(Len(history') = Len(history) + 1
            /\ lastOp'.name = "load_image_buffer") =>
          \A j \in CallsOf("LoadData")' :
              /\ \E i \in CallsOf("GetDMDTYPE")' : i < j
              /\ calls'[j].args[1] = c_short(dmdType)
              /\ calls'[j].path = lastOp'.path]_vars

\* two loads with a change of device type between them: the second load
\* hands the new type to LoadData
C13_Witness ==
    /\ Len(history) = 2
    /\ history[1].name = "load_image_buffer"
    /\ history[1].says = "success"
    /\ lastOp.name = "load_image_buffer"
    /\ lastOp.says = "success"
    /\ nOps = 3
    /\ dmdType = 7
    /\ calls = <<Call("GetDMDTYPE", <<0>>, ""),
                 Call("LoadData", <<7, 0>>, "frame_0001.jpg")>>

\* C6: connect_device with an invalid device index raises ConnectDeviceError
\* and leaves the device not attached.
C6_InvalidIndexRaises ==
    (lastOp.name = "connect_device" /\ ~ValidDeviceId(lastOp.arg)) =>
        /\ lastOp.outcome = "raise"
        /\ lastOp.exc = ConnectDeviceError
        /\ bool(devAttached) = 0

\* C8: load_buffer_to_DMD and load_image_buffer raise BufferUploadError when
\* the backend rejects the transfer.
C8_RejectedTransferRaises ==
    (lastOp.name \in {"load_buffer_to_DMD", "load_image_buffer"}
        /\ lastOp.says = "failure") =>
        /\ lastOp.outcome = "raise"
        /\ lastOp.exc.type = "BufferUploadError"

(***************************************************************************)
(* Properties of the window (GuiSpec).                                     *)
(***************************************************************************)
\* C7: every controller object that is discarded had disable_override()
\* called on it first.
C7_DisableBeforeDiscard ==
    \A c \in discarded : c \in disabled

\* the register value of the mode a button names
ModeValue(button_text) ==
    CASE button_text = "Global" -> 32
      [] button_text = "Single" -> 0
      [] button_text = "Dual"   -> 16
      [] button_text = "Quad"   -> 48

\* the last override value the device took from a set-mode call, NoValue
\* when it took none
LastValueTaken ==
    IF \E i \in 1..Len(history) :
          history[i].name \in SetModeOps /\ history[i].says = "success"
    THEN GetSWOverrideValue
    ELSE NoValue

\* C14: whenever _curr_mode names a mode and the window holds a controller,
\* the last override value the device took is the register value of
\* _curr_mode.
C14_ShownModeIsDeviceMode ==
    (win = "running" /\ _curr_mode \in Buttons /\ _controller \in Backends) =>
        LastValueTaken = ModeValue(_curr_mode)

\* C15: after __init__ and after every switch_interface that returns,
\* _controller is defined, and is None or a controller whose
\* enable_override() has just returned.
C15_ControllerDefinedAndEnabled ==
    (win = "running" /\ lastEvent.name \in {"__init__", "switch_interface"}
        /\ lastEvent.exc = "none") =>
        /\ _controller # "undefined"
        /\ _controller \in Backends =>
              /\ lastOp.name = "enable_override"
              /\ lastOp.outcome = "return"
              /\ ctlId \in constructed \ discarded
====
